---------------------------- MODULE Spec2Model ----------------------------
(***************************************************************************)
(* A model of the dropchat front end: the session identity resolver, the   *)
(* chat session hook (useCustomChat), and the top-level page with its      *)
(* upload workflow (DemoPage and LandingPage), and the two relay routes.   *)
(*                                                                         *)
(* JavaScript strings whose characters the code inspects (paths, hashes,   *)
(* ids) are sequences of one-character strings.  Strings the code only     *)
(* stores and forwards (message texts, answers, document names) are TLA+   *)
(* strings.  A JavaScript value that may be null or undefined is a tagged  *)
(* record.                                                                 *)
(***************************************************************************)
EXTENDS Integers, Sequences, FiniteSets, TLC

VARIABLES
    \* ---- useCustomChat (one activation of the chat session) ----
    pathname,        \* usePathname(): the activation's location
    messages,        \* useState<Message[]>
    isLoading,       \* useState(false)
    error,           \* useState<string | null>
    documentName,    \* useState<string | null>
    metaPc,          \* position of the mount effect loadProjectInfo
    sends,           \* one record per sendMessage invocation (its closure)
    now,             \* last value Date.now() returned
    chatPosts,       \* bodies of the POST /api/chat requests issued
    metaGets,        \* identities of the GET /api/projects requests issued
    \* ---- identity resolver applied on a location change ----
    chatParams,      \* last result of getChatParams()
    \* ---- DemoPage and LandingPage ----
    location,        \* window.location.pathname
    effectRan,       \* the startup effect of DemoPage has run
    appState,        \* useState<AppState>('landing')
    chatId,          \* useState<string | null>(null)
    uploading,       \* LandingPage useState(false)
    uploadingFileName,
    pendingUpload,   \* the file whose POST /api/create is outstanding
    uploadResult,    \* how the last onFileUpload promise settled
    alerts,          \* alert() notices shown to the visitor
    createPosts,     \* files sent with POST /api/create
    \* ---- the relay routes (server side) ----
    relayReq,        \* the request being handled, or Null
    relayPc,         \* "idle", "upstream" (awaiting the backend) or "done"
    relayUpstream,   \* the upstream request issued for relayReq, or Null
    relayResp        \* the response returned for relayReq, or Null

chatVars == <<pathname, messages, isLoading, error, documentName, metaPc,
              sends, now, chatPosts, metaGets>>
pageVars == <<location, effectRan, appState, chatId, uploading,
              uploadingFileName, pendingUpload, uploadResult, alerts,
              createPosts>>
relayVars == <<relayReq, relayPc, relayUpstream, relayResp>>
vars == <<chatVars, chatParams, pageVars, relayVars>>

---------------------------------------------------------------------------
(* Bounds of the model.                                                    *)
MaxSegments == 4     \* path = at most this many '/'-separated segments + 1
MaxSends == 2        \* sendMessage invocations per activation
MaxUploads == 2      \* upload attempts per page activation
MaxDrop == 2         \* files in one drop event

---------------------------------------------------------------------------
(* JavaScript values.                                                      *)
Null == [t |-> "null"]
Undefined == [t |-> "undefined"]
Str(s) == [t |-> "string", v |-> s]          \* a stored-and-forwarded string
Chars(cs) == [t |-> "string", chars |-> cs]  \* a string the code inspects
Arr(items) == [t |-> "array", items |-> items]

\* JavaScript truthiness of the values above: null, undefined and the empty
\* string are falsy.
Truthy(v) ==
    /\ v # Null
    /\ v # Undefined
    /\ v # Str("")
    /\ v # Chars(<<>>)

---------------------------------------------------------------------------
(* Character-level strings.                                                *)
chat == <<"c", "h", "a", "t">>
chats == <<"c", "h", "a", "t", "s">>
abc == <<"a", "b", "c">>
n123 == <<"1", "2", "3">>
undefinedChars == <<"u", "n", "d", "e", "f", "i", "n", "e", "d">>
chatPrefix == <<"/">> \o chat \o <<"/">>

\* String.prototype.split('/'): the substrings between the separators; a
\* string with k separators gives k + 1 parts, empty parts included.
RECURSIVE split(_)
split(s) ==
    IF \A i \in 1..Len(s) : s[i] # "/"
    THEN <<s>>
    ELSE LET i == CHOOSE k \in 1..Len(s) :
                      /\ s[k] = "/"
                      /\ \A j \in 1..(k - 1) : s[j] # "/"
         IN  <<SubSeq(s, 1, i - 1)>> \o split(SubSeq(s, i + 1, Len(s)))

\* String.prototype.startsWith
startsWith(s, prefix) ==
    /\ Len(s) >= Len(prefix)
    /\ SubSeq(s, 1, Len(prefix)) = prefix

\* A template literal's conversion of an interpolated value.
TemplateString(v) ==
    IF v = Undefined THEN undefinedChars
    ELSE IF v = Null THEN <<"n", "u", "l", "l">>
    ELSE v.chars

---------------------------------------------------------------------------
(* SessionIdentityResolver: useCustomChat.getChatParams.                   *)
getChatParams_anyPrefix(path) ==
    LET pathParts == split(path)
    IN  IF Len(pathParts) >= 4
        THEN [user_hash |-> pathParts[3], project_id |-> pathParts[4]]
        ELSE Null

getChatParams_shifted(path) ==
    LET pathParts == split(path)
    IN  IF Len(pathParts) >= 4 /\ pathParts[2] = chat
        THEN [user_hash |-> pathParts[2], project_id |-> pathParts[3]]
        ELSE Null

\* pathParts[1] of the code is pathParts[2] here: sequences start at 1.
getChatParams(path) ==
    LET pathParts == split(path)
    IN  IF Len(pathParts) >= 4 /\ pathParts[2] = chat
        THEN [user_hash |-> pathParts[3], project_id |-> pathParts[4]]
        ELSE Null

---------------------------------------------------------------------------
(* Inputs: the paths a location can hold.                                  *)
Segments == {<<>>, chat, chats, abc, n123}

RECURSIVE SegLists(_)
SegLists(n) ==
    IF n = 0 THEN {<<>>}
    ELSE LET shorter == SegLists(n - 1)
         IN  shorter \cup {Append(l, s) : l \in {x \in shorter : Len(x) = n - 1},
                                          s \in Segments}

\* Array.prototype.join('/') of a non-empty list of segments.
RECURSIVE Join(_)
Join(l) ==
    IF Len(l) = 1 THEN l[1]
    ELSE l[1] \o <<"/">> \o Join(Tail(l))

\* Every string over the segments with at most MaxSegments separators.
AllPaths == {Join(l) : l \in SegLists(MaxSegments + 1) \ {<<>>}}

---------------------------------------------------------------------------
(* HTTP responses as fetch() delivers them.                                *)
Malformed == [t |-> "malformed"]      \* a body response.json() rejects
Text(parts) == [t |-> "string", parts |-> parts]  \* a concatenated string

Rejected == [rejected |-> TRUE, status |-> 0, statusText |-> "", body |-> Malformed]
Http(status, statusText, body) ==
    [rejected |-> FALSE, status |-> status, statusText |-> statusText, body |-> body]

\* Response.ok
ResponseOk(r) == r.status >= 200 /\ r.status <= 299

\* Truthiness of a value that may also be a concatenated string or an array.
TruthyJs(v) ==
    /\ Truthy(v)
    /\ v # Text(<<>>)

---------------------------------------------------------------------------
(* useCustomChat: inputs.                                                  *)
MessageTexts == {"", "q1"}

\* The locations an activation of the chat session can start on.
ActivationPaths ==
    { <<"/">>,
      Join(<<<<>>, chat>>),
      Join(<<<<>>, chat, abc>>),
      Join(<<<<>>, chats, abc, n123>>),
      Join(<<<<>>, chat, abc, n123>>),
      Join(<<<<>>, chat, <<>>, <<>>>>) }

ChatBodies ==
    { [answer |-> "a1", sources |-> Arr(<<>>), error |-> Undefined],
      [answer |-> "a2", sources |-> Arr(<<"spec.pdf">>), error |-> Undefined],
      [answer |-> "a1", sources |-> Arr(<<"other.pdf", "spec.pdf">>),
       error |-> Undefined],
      [answer |-> "a2", sources |-> Undefined, error |-> Null],
      [answer |-> "a1", sources |-> Arr(<<>>), error |-> Text(<<>>)],
      [answer |-> "", sources |-> Arr(<<>>), error |-> Text(<<"boom">>)] }

ChatResponses ==
    {Rejected}
    \cup {Http(500, "Internal Server Error", Malformed),
          Http(200, "OK", Malformed)}
    \cup {Http(200, "OK", b) : b \in ChatBodies}

MetaBodies ==
    {[document_names |-> n] :
        n \in {Undefined, Arr(<<>>), Arr(<<"spec.pdf">>),
               Arr(<<"other.pdf", "spec.pdf">>)}}

MetaResponses ==
    {Rejected, Http(404, "Not Found", Malformed), Http(200, "OK", Malformed)}
    \cup {Http(200, "OK", b) : b \in MetaBodies}

---------------------------------------------------------------------------
(* useCustomChat: messages.                                                *)
\* id: `human-${Date.now()}` and `ai-${Date.now()}`
HumanMessage(t, messageText) ==
    [id |-> <<"human", t>>, type |-> "human",
     content |-> <<[type |-> "text", text |-> messageText]>>]

AiMessage(t, answer) ==
    [id |-> <<"ai", t>>, type |-> "ai",
     content |-> <<[type |-> "text", text |-> answer]>>]

\* setMessages(prev => [...prev, message])
AppendMessage_replace(prev, message) == <<message>>

AppendMessage_prepend(prev, message) == <<message>> \o prev

AppendMessage(prev, message) == Append(prev, message)

\* Date.now() does not run backwards; two reads may give the same value.
ClockValues == {0, 1}
ClockReads == {t \in ClockValues : t >= now}

---------------------------------------------------------------------------
(* useCustomChat: the mount effect, loadProjectInfo.                       *)
LoadProjectInfo ==
    /\ metaPc = "mount"
    /\ LET params == getChatParams(pathname)
       IN  IF params = Null
           THEN /\ metaPc' = "done"
                /\ metaGets' = metaGets
           ELSE /\ metaPc' = "fetch"
                /\ metaGets' = Append(metaGets, params)
    /\ UNCHANGED <<pathname, messages, isLoading, error, documentName, sends,
                   now, chatPosts>>

\* useEffect(..., [getChatParams]): after a render the effect runs again
\* only when getChatParams has changed, and useCallback(..., [pathname])
\* changes it only with the pathname.
EffectReruns_everyRender(prevPathname, nextPathname) == TRUE

EffectReruns(prevPathname, nextPathname) == prevPathname # nextPathname

\* The metadata GETs issued once the render that follows a state change of
\* the hook has run its effects.  No handler of the hook changes the
\* pathname, so the render sees the pathname of the render before it.
MetaGetsAfterRender ==
    IF EffectReruns(pathname, pathname) /\ getChatParams(pathname) # Null
    THEN Append(metaGets, getChatParams(pathname))
    ELSE metaGets

\* The document name the metadata response makes the hook adopt, or
\* Undefined when the response sets nothing.
MetaDocumentName_resetOnFailure(r) ==
    IF /\ ~r.rejected
       /\ ResponseOk(r)
       /\ r.body # Malformed
    THEN IF /\ TruthyJs(r.body.document_names)
            /\ Len(r.body.document_names.items) > 0
         THEN Str(r.body.document_names.items[1])
         ELSE Undefined
    ELSE Null

MetaDocumentName_last(r) ==
    IF /\ ~r.rejected
       /\ ResponseOk(r)
       /\ r.body # Malformed
       /\ TruthyJs(r.body.document_names)
       /\ Len(r.body.document_names.items) > 0
    THEN Str(r.body.document_names.items[Len(r.body.document_names.items)])
    ELSE Undefined

MetaDocumentName(r) ==
    IF /\ ~r.rejected
       /\ ResponseOk(r)
       /\ r.body # Malformed
       /\ TruthyJs(r.body.document_names)
       /\ Len(r.body.document_names.items) > 0
    THEN Str(r.body.document_names.items[1])
    ELSE Undefined

ProjectInfoSettles(r) ==
    /\ metaPc = "fetch"
    /\ metaPc' = "done"
    /\ documentName' = IF MetaDocumentName(r) = Undefined
                       THEN documentName
                       ELSE MetaDocumentName(r)
    /\ metaGets' = MetaGetsAfterRender
    /\ UNCHANGED <<pathname, messages, isLoading, error, sends, now,
                   chatPosts>>

---------------------------------------------------------------------------
(* useCustomChat: sendMessage.                                             *)
\* What the catch block stores in `error` for a response, or Null when the
\* try block runs to its end.
ChatFailure_bodyErrorIgnored(r) ==
    IF r.rejected THEN Text(<<"Failed to fetch">>)
    ELSE IF ~ResponseOk(r) THEN Text(<<"Chat request failed: ", r.statusText>>)
    ELSE IF r.body = Malformed THEN Text(<<"Unexpected token in JSON">>)
    ELSE Null

ChatFailure(r) ==
    IF r.rejected THEN Text(<<"Failed to fetch">>)
    ELSE IF ~ResponseOk(r) THEN Text(<<"Chat request failed: ", r.statusText>>)
    ELSE IF r.body = Malformed THEN Text(<<"Unexpected token in JSON">>)
    ELSE IF TruthyJs(r.body.error) THEN r.body.error
    ELSE Null

\* The documentName the sendMessage closure reads.  sendMessage is memoized
\* with the dependency list [getChatParams], which changes only with the
\* pathname, so within an activation it is the closure of the first render
\* and reads that render's documentName, the initial null.
SendClosureDocumentName == Null

\* The finally block: setIsLoading(false).
IsLoadingAfterSettle_successOnly(failure) == failure # Null

IsLoadingAfterSettle(failure) == FALSE

InvalidSessionError == Text(<<"Invalid chat URL format">>)

SendRecord(messageText, params, pc, result, answer) ==
    [messageText |-> messageText, chatParams |-> params, pc |-> pc,
     result |-> result, answer |-> answer]

\* Lines 386-417: from the call to the await of fetch.
SendMessage(messageText) ==
    /\ metaPc # "mount"
    /\ Len(sends) < MaxSends
    /\ LET params == getChatParams(pathname)
       IN  IF params = Null
           THEN /\ error' = InvalidSessionError
                /\ sends' = Append(sends,
                       SendRecord(messageText, Null, "done", "invalid", ""))
                /\ UNCHANGED <<messages, isLoading, now, chatPosts>>
           ELSE \E t \in ClockReads :
                /\ isLoading' = TRUE
                /\ error' = Null
                /\ now' = t
                /\ messages' = AppendMessage(messages, HumanMessage(t, messageText))
                /\ chatPosts' = Append(chatPosts,
                       [user_hash |-> params.user_hash,
                        project_id |-> params.project_id,
                        query |-> messageText])
                /\ sends' = Append(sends,
                       SendRecord(messageText, params, "fetch", "pending", ""))
    /\ metaGets' = MetaGetsAfterRender
    /\ UNCHANGED <<pathname, documentName, metaPc>>

\* Lines 419-449: from the fetch's settling to the end of the finally block.
ChatSettles(i, r) ==
    /\ i \in 1..Len(sends)
    /\ sends[i].pc = "fetch"
    /\ LET failure == ChatFailure(r)
       IN  /\ IF failure # Null
              THEN /\ error' = failure
                   /\ sends' = [sends EXCEPT ![i].pc = "done",
                                             ![i].result = "failed"]
                   /\ UNCHANGED <<messages, documentName, now>>
              ELSE \E t \in ClockReads :
                   /\ documentName' =
                          IF /\ ~TruthyJs(SendClosureDocumentName)
                             /\ TruthyJs(r.body.sources)
                             /\ Len(r.body.sources.items) > 0
                          THEN Str(r.body.sources.items[1])
                          ELSE documentName
                   /\ now' = t
                   /\ messages' = AppendMessage(messages,
                                      AiMessage(t, r.body.answer))
                   /\ sends' = [sends EXCEPT ![i].pc = "done",
                                             ![i].result = "answered",
                                             ![i].answer = r.body.answer]
                   /\ error' = error
           /\ isLoading' = IsLoadingAfterSettle(failure)
    /\ metaGets' = MetaGetsAfterRender
    /\ UNCHANGED <<pathname, metaPc, chatPosts>>

---------------------------------------------------------------------------
(* LandingPage and DemoPage: inputs.                                       *)
PdfType == "application/pdf"

\* 15 * 1024 * 1024, the limit of LandingPage.handleFileUpload.
MaxUploadBytes == 15 * 1024 * 1024

File(name, type, size) == [name |-> name, type |-> type, size |-> size]

Files ==
    {File("a.pdf", PdfType, sz) :
        sz \in {MaxUploadBytes - 1, MaxUploadBytes, MaxUploadBytes + 1}}
    \cup {File("notes.txt", "text/plain", sz) :
        sz \in {1024, MaxUploadBytes + 1}}

RECURSIVE FileLists(_)
FileLists(n) ==
    IF n = 0 THEN {<<>>}
    ELSE LET shorter == FileLists(n - 1)
         IN  shorter \cup {Append(l, f) : l \in {x \in shorter : Len(x) = n - 1},
                                          f \in Files}

\* The locations the top-level page can be opened on.
PageLocations ==
    { <<"/">>,
      Join(<<<<>>, chat>>),
      Join(<<<<>>, chat, <<>>>>),
      Join(<<<<>>, chat, abc>>),
      Join(<<<<>>, chat, abc, n123>>),
      Join(<<<<>>, chats, abc, n123>>) }

CreateBodies ==
    {[user_hash |-> u, project_id |-> q] :
        u \in {Undefined, Chars(abc), Chars(<<>>), Chars(<<"a", "/", "b">>)},
        q \in {Undefined, Chars(n123), Chars(<<>>)}}

CreateResponses ==
    {Rejected, Http(500, "Internal Server Error", Malformed),
     Http(200, "OK", Malformed), Http(200, "OK", Null)}
    \cup {Http(200, "OK", b) : b \in CreateBodies}

Threw == [t |-> "error"]     \* a rejected onFileUpload promise

SizeAlert == "File size must be less than 15MB"
FailedAlert == "Upload failed. Please try again."

---------------------------------------------------------------------------
(* DemoPage.                                                               *)
\* The startup effect, run once after the first render.
StartupEffect ==
    /\ ~effectRan
    /\ effectRan' = TRUE
    /\ IF startsWith(location, chatPrefix)
       THEN /\ chatId' = Chars(location)
            /\ appState' = "chat"
       ELSE UNCHANGED <<chatId, appState>>
    /\ UNCHANGED <<location, uploading, uploadingFileName, pendingUpload,
                   uploadResult, alerts, createPosts>>

\* `/chat/${result.user_hash}/${result.project_id}`
ChatUrl_noLeadingSlash(result) ==
    chat \o <<"/">> \o TemplateString(result.user_hash)
        \o <<"/">> \o TemplateString(result.project_id)

ChatUrl_swapped(result) ==
    chatPrefix \o TemplateString(result.project_id)
        \o <<"/">> \o TemplateString(result.user_hash)

ChatUrl(result) ==
    chatPrefix \o TemplateString(result.user_hash)
        \o <<"/">> \o TemplateString(result.project_id)

\* Whether DemoPage.handleFileUpload throws on a response: a rejected fetch,
\* a status outside 2xx, a body json() rejects, or a body that is JSON null
\* (reading a property of null throws).
CreateThrows(r) ==
    \/ r.rejected
    \/ ~ResponseOk(r)
    \/ r.body = Malformed
    \/ r.body = Null

HandleCreateNew_keepsChatId ==
    /\ effectRan
    /\ appState = "share"
    /\ appState' = "landing"
    /\ UNCHANGED <<chatId, location, effectRan, uploading, uploadingFileName,
                   pendingUpload, uploadResult, alerts, createPosts>>

HandleCreateNew ==
    /\ effectRan
    /\ appState = "share"
    /\ chatId' = Null
    /\ appState' = "landing"
    /\ UNCHANGED <<location, effectRan, uploading, uploadingFileName,
                   pendingUpload, uploadResult, alerts, createPosts>>

---------------------------------------------------------------------------
(* LandingPage.  dragOver, a styling flag, is left out.                    *)
FileTooLarge_inclusive(file) == file.size >= MaxUploadBytes

FileTooLarge(file) == file.size > MaxUploadBytes

\* LandingPage.handleFileUpload up to its await, with the part of
\* DemoPage.handleFileUpload (onFileUpload) that runs before the fetch's
\* await: the POST /api/create is issued in the same step.
HandleFileUpload(file) ==
    IF FileTooLarge(file)
    THEN /\ alerts' = Append(alerts, SizeAlert)
         /\ UNCHANGED <<location, effectRan, appState, chatId, uploading,
                        uploadingFileName, pendingUpload, uploadResult,
                        createPosts>>
    ELSE /\ uploadingFileName' = file.name
         /\ uploading' = TRUE
         /\ createPosts' = Append(createPosts, file)
         /\ pendingUpload' = file
         /\ UNCHANGED <<location, effectRan, appState, chatId, uploadResult,
                        alerts>>

\* The drop zone is rendered in phase landing while no upload is running
\* (line 104 renders the spinner instead).  The first render is in phase
\* landing on every location: the startup effect runs after it, as a task
\* of its own, so a drop or a selection can be handled before the effect.
DropZoneShown ==
    /\ appState = "landing"
    /\ ~uploading
    /\ Len(createPosts) < MaxUploads
    /\ Len(alerts) < MaxUploads

\* files.find(file => file.type === "application/pdf")
FindPdf(files) ==
    IF \E i \in 1..Len(files) : files[i].type = PdfType
    THEN files[CHOOSE i \in 1..Len(files) :
                   /\ files[i].type = PdfType
                   /\ \A j \in 1..(i - 1) : files[j].type # PdfType]
    ELSE Undefined

HandleDrop(files) ==
    /\ DropZoneShown
    /\ IF FindPdf(files) # Undefined
       THEN HandleFileUpload(FindPdf(files))
       ELSE UNCHANGED pageVars

\* e.target.files?.[0]
HandleFileInputChange(files) ==
    /\ DropZoneShown
    /\ IF Len(files) > 0
       THEN HandleFileUpload(files[1])
       ELSE UNCHANGED pageVars

\* setChatId(chatUrl): the active path is one value, replaced on each call.
SetChatId_keepsFirst(chatUrl) ==
    IF uploadResult \notin {Null, Threw} THEN uploadResult ELSE Chars(chatUrl)

SetChatId(chatUrl) == Chars(chatUrl)

\* The finally block of LandingPage.handleFileUpload: setUploading(false),
\* whether or not onFileUpload threw.
UploadingAfterSettle_successOnly(threw) == threw

UploadingAfterSettle(threw) == FALSE

\* The POST /api/create settles: the rest of DemoPage.handleFileUpload, then
\* the catch and finally blocks of LandingPage.handleFileUpload.
\* The startup effect is flushed no later than the render that follows
\* setUploading(true), so it has run by the time the POST settles.
CreateSettles(r) ==
    /\ effectRan
    /\ pendingUpload # Null
    /\ pendingUpload' = Null
    /\ IF CreateThrows(r)
       THEN /\ uploadResult' = Threw
            /\ alerts' = Append(alerts, FailedAlert)
            /\ UNCHANGED <<chatId, appState>>
       ELSE /\ chatId' = SetChatId(ChatUrl(r.body))
            /\ appState' = "share"
            /\ uploadResult' = Chars(ChatUrl(r.body))
            /\ alerts' = alerts
    /\ uploading' = UploadingAfterSettle(CreateThrows(r))
    /\ uploadingFileName' = ""
    /\ UNCHANGED <<location, effectRan, createPosts>>

---------------------------------------------------------------------------
(* The identity resolver applied to the current location.                  *)
Pending == [t |-> "pending"]

ResolveIdentity ==
    /\ chatParams = Pending
    /\ chatParams' = getChatParams(pathname)
    /\ UNCHANGED pathname

---------------------------------------------------------------------------
(* The relay routes: GET /api/projects/{userHash}/{projectId} and          *)
(* POST /api/chat.  One request is handled at a time; the handlers keep no *)
(* state between requests.                                                 *)
Broken == [t |-> "broken"]     \* a body whose read (text() or json()) rejects
UpstreamBody(text, json) == [t |-> "body", text |-> text, json |-> json]

UpstreamBodies ==
    { Broken,
      UpstreamBody("", Malformed),
      UpstreamBody("Internal Server Error", Malformed),
      UpstreamBody("{\"detail\":\"Project not found\"}",
                   [detail |-> "Project not found"]),
      UpstreamBody("{\"answer\":\"a1\",\"sources\":[]}",
                   [answer |-> "a1", sources |-> Arr(<<>>)]),
      UpstreamBody("null", Null) }

UpstreamResponses ==
    {Rejected}
    \cup {Http(st[1], st[2], b) :
             st \in {<<200, "OK">>, <<404, "Not Found">>,
                     <<500, "Internal Server Error">>,
                     <<503, "Service Unavailable">>},
             b \in UpstreamBodies}

\* The bodies POST /api/chat can be called with: one request.json() rejects,
\* JSON null, and objects whose fields are missing, null, empty or set.
RelayFieldValues == {Undefined, Null, Str(""), Str("abc"), Str("q1")}

RelayChatBodies ==
    {Malformed, Null}
    \cup {[user_hash |-> u, project_id |-> p, query |-> q] :
             u \in RelayFieldValues, p \in RelayFieldValues,
             q \in RelayFieldValues}

\* The route parameters GET can be called with.  The router matches only
\* non-empty segments; the empty ones reach the handler's own check.
RelayParams ==
    {[userHash |-> u, projectId |-> p] :
        u \in {Str(""), Str("abc")}, p \in {Str(""), Str("123")}}

\* NextResponse.json(body, {status})
NextResponseJson(body, status) == [status |-> status, json |-> body]

\* The catch block of both handlers.
InternalServerError ==
    NextResponseJson([error |-> Text(<<"Internal server error">>)], 500)

\* What the try block does with the request body before the upstream
\* fetch: "throw" (json() rejects, or a property of null is read), "invalid"
\* (a required field is falsy) or "forward".
POST_Validate(body) ==
    IF body = Malformed \/ body = Null THEN "throw"
    ELSE IF \/ ~Truthy(body.user_hash)
            \/ ~Truthy(body.project_id)
            \/ ~Truthy(body.query)
    THEN "invalid"
    ELSE "forward"

\* POST /api/chat up to the await of the upstream fetch.
POST(body) ==
    /\ relayPc = "idle"
    /\ relayReq' = [route |-> "chat", body |-> body]
    /\ CASE POST_Validate(body) = "throw" ->
                /\ relayResp' = InternalServerError
                /\ relayPc' = "done"
                /\ relayUpstream' = Null
         [] POST_Validate(body) = "invalid" ->
                /\ relayResp' = NextResponseJson(
                       [error |-> Text(<<"Missing required fields: user_hash, project_id, or query">>)],
                       400)
                /\ relayPc' = "done"
                /\ relayUpstream' = Null
         [] OTHER ->
                /\ relayUpstream' =
                       [method |-> "POST", route |-> "chat",
                        body |-> [user_hash |-> body.user_hash,
                                  project_id |-> body.project_id,
                                  query |-> body.query]]
                /\ relayPc' = "upstream"
                /\ relayResp' = Null

\* GET /api/projects/{userHash}/{projectId} up to the await of the upstream
\* fetch.
GET(params) ==
    /\ relayPc = "idle"
    /\ relayReq' = [route |-> "projects", params |-> params]
    /\ IF ~Truthy(params.userHash) \/ ~Truthy(params.projectId)
       THEN /\ relayResp' = NextResponseJson(
                    [error |-> Text(<<"Missing userHash or projectId">>)], 400)
            /\ relayPc' = "done"
            /\ relayUpstream' = Null
       ELSE /\ relayUpstream' =
                    [method |-> "GET", route |-> "projects",
                     userHash |-> params.userHash,
                     projectId |-> params.projectId]
            /\ relayPc' = "upstream"
            /\ relayResp' = Null

\* The handler's answer once the upstream fetch has settled.
RelayAnswer_badGateway(r) ==
    IF r.rejected THEN InternalServerError
    ELSE IF ~ResponseOk(r)
    THEN IF r.body = Broken
         THEN InternalServerError
         ELSE NextResponseJson(
                  [error |-> Text(<<"Backend error: ", r.body.text>>)], 502)
    ELSE IF r.body = Broken \/ r.body.json = Malformed
    THEN InternalServerError
    ELSE NextResponseJson(r.body.json, 200)

RelayAnswer(r) ==
    IF r.rejected THEN InternalServerError
    ELSE IF ~ResponseOk(r)
    THEN IF r.body = Broken
         THEN InternalServerError
         ELSE NextResponseJson(
                  [error |-> Text(<<"Backend error: ", r.body.text>>)],
                  r.status)
    ELSE IF r.body = Broken \/ r.body.json = Malformed
    THEN InternalServerError
    ELSE NextResponseJson(r.body.json, 200)

\* POST /api/chat from the upstream fetch's settling to its return.
POST_UpstreamSettles(r) ==
    /\ relayPc = "upstream"
    /\ relayReq.route = "chat"
    /\ relayResp' = RelayAnswer(r)
    /\ relayPc' = "done"
    /\ UNCHANGED <<relayReq, relayUpstream>>

\* GET /api/projects/... from the upstream fetch's settling to its return.
GET_UpstreamSettles(r) ==
    /\ relayPc = "upstream"
    /\ relayReq.route = "projects"
    /\ relayResp' = RelayAnswer(r)
    /\ relayPc' = "done"
    /\ UNCHANGED <<relayReq, relayUpstream>>

\* The answer has been sent; the route is ready for the next request.
RelayReturns ==
    /\ relayPc = "done"
    /\ relayPc' = "idle"
    /\ relayReq' = Null
    /\ relayUpstream' = Null
    /\ relayResp' = Null

---------------------------------------------------------------------------
(* Specifications.                                                         *)
ChatInit ==
    /\ messages = <<>>
    /\ isLoading = FALSE
    /\ error = Null
    /\ documentName = Null
    /\ metaPc = "mount"
    /\ sends = <<>>
    /\ now = 0
    /\ chatPosts = <<>>
    /\ metaGets = <<>>

RelayInit ==
    /\ relayPc = "idle"
    /\ relayReq = Null
    /\ relayUpstream = Null
    /\ relayResp = Null

PageInit ==
    /\ effectRan = FALSE
    /\ appState = "landing"
    /\ chatId = Null
    /\ uploading = FALSE
    /\ uploadingFileName = ""
    /\ pendingUpload = Null
    /\ uploadResult = Null
    /\ alerts = <<>>
    /\ createPosts = <<>>

\* One activation of the chat session.
Init ==
    /\ pathname \in ActivationPaths
    /\ ChatInit
    /\ chatParams = Pending
    /\ location = pathname
    /\ PageInit
    /\ RelayInit

Next ==
    \/ LoadProjectInfo /\ UNCHANGED <<chatParams, pageVars, relayVars>>
    \/ \E r \in MetaResponses :
           ProjectInfoSettles(r) /\ UNCHANGED <<chatParams, pageVars, relayVars>>
    \/ \E messageText \in MessageTexts :
           SendMessage(messageText) /\ UNCHANGED <<chatParams, pageVars, relayVars>>
    \/ \E i \in 1..MaxSends, r \in ChatResponses :
           ChatSettles(i, r) /\ UNCHANGED <<chatParams, pageVars, relayVars>>

Spec == Init /\ [][Next]_vars

\* The same activation when sends are started one at a time: each
\* sendMessage only after the previous one has settled.
NoSendOutstanding == \A i \in 1..Len(sends) : sends[i].pc = "done"

SeqNext ==
    \/ LoadProjectInfo /\ UNCHANGED <<chatParams, pageVars, relayVars>>
    \/ \E r \in MetaResponses :
           ProjectInfoSettles(r) /\ UNCHANGED <<chatParams, pageVars, relayVars>>
    \/ \E messageText \in MessageTexts :
           /\ NoSendOutstanding
           /\ SendMessage(messageText)
           /\ UNCHANGED <<chatParams, pageVars, relayVars>>
    \/ \E i \in 1..MaxSends, r \in ChatResponses :
           ChatSettles(i, r) /\ UNCHANGED <<chatParams, pageVars, relayVars>>

SeqSpec == Init /\ [][SeqNext]_vars

\* One activation of the top-level page.
PageSpecInit ==
    /\ location \in PageLocations
    /\ PageInit
    /\ pathname = location
    /\ ChatInit
    /\ chatParams = Pending
    /\ RelayInit

PageNext ==
    \/ StartupEffect /\ UNCHANGED <<chatVars, chatParams, relayVars>>
    \/ \E files \in FileLists(MaxDrop) :
           HandleDrop(files) /\ UNCHANGED <<chatVars, chatParams, relayVars>>
    \/ \E files \in FileLists(1) :
           HandleFileInputChange(files) /\ UNCHANGED <<chatVars, chatParams, relayVars>>
    \/ \E r \in CreateResponses :
           CreateSettles(r) /\ UNCHANGED <<chatVars, chatParams, relayVars>>
    \/ HandleCreateNew /\ UNCHANGED <<chatVars, chatParams, relayVars>>

PageSpec == PageSpecInit /\ [][PageNext]_vars

\* The resolver applied to every path.
ResolverInit ==
    /\ pathname \in AllPaths
    /\ ChatInit
    /\ chatParams = Pending
    /\ location = pathname
    /\ PageInit
    /\ RelayInit

ResolverNext ==
    /\ ResolveIdentity
    /\ UNCHANGED <<messages, isLoading, error, documentName, metaPc, sends,
                   now, chatPosts, metaGets, pageVars, relayVars>>

ResolverSpec == ResolverInit /\ [][ResolverNext]_vars

\* The relay routes serving one request after another.
RelaySpecInit ==
    /\ pathname = <<"/">>
    /\ ChatInit
    /\ chatParams = Pending
    /\ location = pathname
    /\ PageInit
    /\ RelayInit

RelayNext ==
    \/ \E body \in RelayChatBodies :
           POST(body) /\ UNCHANGED <<chatVars, chatParams, pageVars>>
    \/ \E params \in RelayParams :
           GET(params) /\ UNCHANGED <<chatVars, chatParams, pageVars>>
    \/ \E r \in UpstreamResponses :
           POST_UpstreamSettles(r)
               /\ UNCHANGED <<chatVars, chatParams, pageVars>>
    \/ \E r \in UpstreamResponses :
           GET_UpstreamSettles(r)
               /\ UNCHANGED <<chatVars, chatParams, pageVars>>
    \/ RelayReturns /\ UNCHANGED <<chatVars, chatParams, pageVars>>

RelaySpec == RelaySpecInit /\ [][RelayNext]_vars

---------------------------------------------------------------------------
(* Properties.  The paths and limits they name are written out, apart from *)
(* the model's operators.                                                  *)
P_root == <<"/">>
P_chat == <<"/", "c", "h", "a", "t">>
P_chat_abc == <<"/", "c", "h", "a", "t", "/", "a", "b", "c">>
P_chat_abc_123 ==
    <<"/", "c", "h", "a", "t", "/", "a", "b", "c", "/", "1", "2", "3">>

\* The positions of the separators of a path, and the part that follows the
\* k-th separator (part 0 precedes the first).
SlashIndexes(path) == {i \in 1..Len(path) : path[i] = "/"}
NthSlash(path, k) ==
    CHOOSE i \in SlashIndexes(path) :
        Cardinality({j \in SlashIndexes(path) : j <= i}) = k
RefPart(path, k) ==
    SubSeq(path,
           IF k = 0 THEN 1 ELSE NthSlash(path, k) + 1,
           IF Cardinality(SlashIndexes(path)) = k
           THEN Len(path)
           ELSE NthSlash(path, k + 1) - 1)
RefResolves(path) ==
    /\ Cardinality(SlashIndexes(path)) >= 3
    /\ RefPart(path, 1) = <<"c", "h", "a", "t">>

\* A step in which sendMessage call i settles.
Settles(i) == i \in 1..Len(sends) /\ sends[i].pc = "fetch" /\ sends'[i].pc = "done"
\* A step in which sendMessage is called.
Called == Len(sends') = Len(sends) + 1

\* C1: whenever a sendMessage call with a resolved identity settles, for
\* every outcome of its chat POST, isLoading is false in the state reached.
C1_IsLoadingReleased ==
    [][\A i \in 1..MaxSends : Settles(i) => isLoading' = FALSE]_vars

\* A failed call and an answered call have both settled; nothing is loading.
C1_Witness ==
    /\ \E i \in 1..Len(sends) : sends[i].result = "failed"
    /\ \E i \in 1..Len(sends) : sends[i].result = "answered"
    /\ ~isLoading

\* The failures the original C2 names: a status outside 2xx, or a 2xx body
\* in which the error field is present.
ErrorFieldPresent(r) ==
    ~r.rejected /\ r.body # Malformed /\ r.body.error # Undefined
NonSuccessStatus(r) ==
    ~r.rejected /\ (r.status < 200 \/ r.status > 299)
\* The same with the error field a non-empty string.
ErrorFieldNonEmpty(r) ==
    /\ ErrorFieldPresent(r)
    /\ r.body.error # Null
    /\ r.body.error # Text(<<>>)

\* C2 as claimed: a call that fails by a non-2xx status or by a 2xx body
\* whose error field is present appends no ai message (its settling leaves
\* the history as it is) and leaves error non-null.
C2_Original ==
    [][\A i \in 1..MaxSends, r \in ChatResponses :
          (NonSuccessStatus(r) \/ (r.status = 200 /\ ErrorFieldPresent(r)))
              /\ ChatSettles(i, r)
          => messages' = messages /\ error' # Null]_vars

\* C2 amended: the call appends exactly its human message when it starts;
\* when it fails by a non-2xx status or by a 2xx body whose error field is a
\* non-empty string, its settling appends nothing and leaves error non-null;
\* a single call from the empty history answered with HTTP 500 leaves exactly
\* one human message, no ai message, and a non-null error.
C2_FailureKeepsQuestion ==
    [][/\ \A messageText \in MessageTexts :
              (RefResolves(pathname) /\ SendMessage(messageText))
              => /\ Len(messages') = Len(messages) + 1
                 /\ SubSeq(messages', 1, Len(messages)) = messages
                 /\ messages'[Len(messages')].type = "human"
                 /\ messages'[Len(messages')].content =
                        <<[type |-> "text", text |-> messageText]>>
       /\ \A i \in 1..MaxSends, r \in ChatResponses :
              (NonSuccessStatus(r) \/ (r.status = 200 /\ ErrorFieldNonEmpty(r)))
                  /\ ChatSettles(i, r)
              => messages' = messages /\ error' # Null
       /\ (Len(sends) = 1 /\ ChatSettles(1, Http(500, "Internal Server Error", Malformed)))
              => /\ Len(messages') = 1
                 /\ messages'[1].type = "human"
                 /\ error' # Null]_vars

\* One call, failed: its question is in the history, no answer, an error.
C2_Witness ==
    /\ Len(sends) = 1
    /\ sends[1].result = "failed"
    /\ Len(messages) = 1
    /\ messages[1].type = "human"
    /\ error = Text(<<"Chat request failed: ", "Internal Server Error">>)

\* C3: on a path that does not resolve, sendMessage issues no request,
\* leaves the history and isLoading as they are and records the
\* invalid-session error; activation issues no metadata request.
C3_UnresolvedNoNetwork ==
    [][~RefResolves(pathname)
       => /\ Called => /\ chatPosts' = chatPosts
                       /\ messages' = messages
                       /\ isLoading' = isLoading
                       /\ error' = Text(<<"Invalid chat URL format">>)
          /\ chatPosts' = <<>>
          /\ metaGets' = <<>>
          /\ metaPc' # "fetch"]_vars

\* sendMessage was called on /chat/abc after activation: error only.
C3_Witness ==
    /\ pathname = P_chat_abc
    /\ metaPc = "done"
    /\ Len(sends) > 0
    /\ error = Text(<<"Invalid chat URL format">>)
    /\ messages = <<>>
    /\ chatPosts = <<>>
    /\ metaGets = <<>>

\* C4: from the empty history, n successful sends, each started after the
\* previous one settled, give [human1, ai1, ..., human_n, ai_n]: message
\* 2i-1 is human with the i-th text, message 2i is ai with the i-th answer.
C4_AlternatingHistory ==
    (\A i \in 1..Len(sends) : sends[i].result = "answered")
    => /\ Len(messages) = 2 * Len(sends)
       /\ \A i \in 1..Len(sends) :
              /\ messages[2 * i - 1].type = "human"
              /\ messages[2 * i - 1].content =
                     <<[type |-> "text", text |-> sends[i].messageText]>>
              /\ messages[2 * i].type = "ai"
              /\ messages[2 * i].content =
                     <<[type |-> "text", text |-> sends[i].answer]>>

\* Two answered sends with different questions and different answers.
C4_Witness ==
    /\ Len(sends) = 2
    /\ \A i \in 1..2 : sends[i].result = "answered"
    /\ sends[1].messageText # sends[2].messageText
    /\ sends[1].answer # sends[2].answer
    /\ Len(messages) = 4

---------------------------------------------------------------------------
\* The path the claims expect for a created session: /chat/u/p.
ExpectedPath(u, p) ==
    <<"/", "c", "h", "a", "t", "/">> \o u \o <<"/">> \o p

\* C5: a file larger than 15 MiB is refused before any request: no POST
\* /api/create, phase, active path and the uploading flag as before, and a
\* notice shown; a file of exactly 15 MiB (or less) is posted.
C5_OversizeRejected ==
    [][\A f \in Files :
          HandleFileUpload(f)
          => IF f.size > 15 * 1024 * 1024
             THEN /\ createPosts' = createPosts
                  /\ pendingUpload' = pendingUpload
                  /\ appState' = appState
                  /\ chatId' = chatId
                  /\ uploading' = uploading
                  /\ Len(alerts') = Len(alerts) + 1
             ELSE /\ createPosts' = Append(createPosts, f)
                  /\ alerts' = alerts]_vars

\* A file of exactly 15 MiB was posted and an oversized one was refused
\* without a second request.
C5_Witness ==
    /\ Len(createPosts) = 1
    /\ createPosts[1].size = 15 * 1024 * 1024
    /\ \E i \in 1..Len(alerts) : alerts[i] = "File size must be less than 15MB"
    /\ appState = "landing"
    /\ chatId = Null
    /\ ~uploading

\* C6 as claimed: no file whose type is not application/pdf is ever sent
\* with POST /api/create, whichever handler it entered by.
C6_OnlyPdfPosted ==
    \A i \in 1..Len(createPosts) : createPosts[i].type = "application/pdf"

\* C7: when the session-creation POST answers 2xx with {user_hash: u,
\* project_id: p}, the upload returns /chat/u/p and the page is in phase
\* share with that path as chatId; u = abc, p = 123 gives /chat/abc/123.
C7_GeneratedPath ==
    [][\A r \in CreateResponses :
          (/\ ~r.rejected
           /\ r.status = 200
           /\ r.body \in CreateBodies
           /\ r.body.user_hash # Undefined
           /\ r.body.project_id # Undefined
           /\ CreateSettles(r))
          => LET path == ExpectedPath(r.body.user_hash.chars,
                                      r.body.project_id.chars)
             IN  /\ uploadResult' = Chars(path)
                 /\ chatId' = Chars(path)
                 /\ appState' = "share"
                 /\ (r.body.user_hash.chars = <<"a", "b", "c">>
                        /\ r.body.project_id.chars = <<"1", "2", "3">>
                     => chatId' = Chars(P_chat_abc_123))]_vars

\* The upload answered {abc, 123} returned /chat/abc/123 into phase share.
C7_Witness ==
    /\ appState = "share"
    /\ chatId = Chars(P_chat_abc_123)
    /\ uploadResult = Chars(P_chat_abc_123)
    /\ pendingUpload = Null

\* C8: chatId is non-null exactly in the phases share and chat.
C8_ActivePathIffPhase ==
    (chatId # Null) <=> (appState \in {"share", "chat"})

\* Back on landing after a successful upload and a start over, then a
\* failed upload: no path is held.
C8_Witness ==
    /\ appState = "landing"
    /\ chatId = Null
    /\ Len(createPosts) = 2
    /\ uploadResult = Threw
    /\ \E i \in 1..Len(alerts) : alerts[i] = FailedAlert
    /\ Len(alerts) = 1

\* C9: the resolver resolves a path exactly when it has at least three
\* separators (four parts) and part 1 is "chat", and then returns parts 2
\* and 3; /chat/abc/123 gives {abc, 123}; /, /chat and /chat/abc do not
\* resolve.
C9_ResolverContract ==
    chatParams # Pending
    => /\ (chatParams # Null) <=> RefResolves(pathname)
       /\ RefResolves(pathname)
          => chatParams = [user_hash |-> RefPart(pathname, 2),
                           project_id |-> RefPart(pathname, 3)]
       /\ pathname = P_chat_abc_123
          => chatParams = [user_hash |-> <<"a", "b", "c">>,
                           project_id |-> <<"1", "2", "3">>]
       /\ pathname \in {P_root, P_chat, P_chat_abc} => chatParams = Null

\* /chat/abc/123/chat resolved to {abc, 123}: parts beyond the fourth are
\* ignored.
C9_Witness ==
    /\ pathname = P_chat_abc_123 \o <<"/", "c", "h", "a", "t">>
    /\ chatParams = [user_hash |-> <<"a", "b", "c">>,
                     project_id |-> <<"1", "2", "3">>]

\* C10: the path a successful upload generates always resolves.
C10_RoundTrip ==
    (uploadResult # Null /\ uploadResult # Threw)
    => /\ getChatParams(uploadResult.chars) # Null
       /\ chatId # Null => getChatParams(chatId.chars) # Null

\* The path generated from user_hash "a/b" and an empty project_id
\* resolves (to {a, b}).
C10_Witness ==
    /\ appState = "share"
    /\ uploadResult = Chars(<<"/", "c", "h", "a", "t", "/", "a", "/", "b", "/">>)
    /\ getChatParams(uploadResult.chars) =
           [user_hash |-> <<"a">>, project_id |-> <<"b">>]

\* C11: when an upload succeeds after an earlier upload succeeded with
\* another path, the page is in phase share with the later path as its active
\* path; the earlier path is not kept and nothing is left pending.
C11_LastUploadWins ==
    [][\A r \in CreateResponses :
          (/\ ~CreateThrows(r)
           /\ r.body.user_hash # Undefined
           /\ r.body.project_id # Undefined
           /\ uploadResult \notin {Null, Threw}
           /\ CreateSettles(r))
          => LET p2 == ExpectedPath(r.body.user_hash.chars,
                                    r.body.project_id.chars)
             IN  /\ appState' = "share"
                 /\ chatId' = Chars(p2)
                 /\ uploadResult' = Chars(p2)
                 /\ pendingUpload' = Null
                 /\ (uploadResult # Chars(p2) => chatId' # uploadResult)]_vars

\* Two uploads were posted and both succeeded, the second with
\* /chat/a/b/123 after a start over.
C11_Witness ==
    /\ appState = "share"
    /\ Len(createPosts) = 2
    /\ alerts = <<>>
    /\ pendingUpload = Null
    /\ chatId = Chars(ExpectedPath(<<"a", "/", "b">>, n123))

\* A metadata response with a 2xx status and a non-empty document_names list.
MetaSucceeds(r) ==
    /\ ~r.rejected
    /\ r.status = 200
    /\ r.body \in MetaBodies
    /\ r.body.document_names \notin {Undefined, Arr(<<>>)}

\* C12: when the metadata fetch of an activation with a resolvable path
\* succeeds with a non-empty document_names list, documentName becomes the
\* first item of the list; when this happens before any sendMessage call,
\* documentName is set while no message has been sent.  On /chat/abc/123
\* with ["spec.pdf"], documentName becomes "spec.pdf".
C12_MetadataSetsDocumentName ==
    [][\A r \in MetaResponses :
          MetaSucceeds(r) /\ ProjectInfoSettles(r)
          => /\ getChatParams(pathname) # Null
             /\ documentName' = Str(r.body.document_names.items[1])
             /\ (r.body.document_names = Arr(<<"spec.pdf">>)
                    => documentName' = Str("spec.pdf"))
             /\ (sends = <<>>
                    => /\ sends' = <<>>
                       /\ messages' = <<>>
                       /\ chatPosts' = <<>>)]_vars

\* The metadata of /chat/abc/123 has named spec.pdf and nothing was sent yet.
C12_Witness ==
    /\ pathname = P_chat_abc_123
    /\ metaPc = "done"
    /\ documentName = Str("spec.pdf")
    /\ sends = <<>>
    /\ chatPosts = <<>>

\* A parsed request body in which one of the three required fields is
\* missing (the body is JSON null or lacks the field), null or empty.
SomeFieldMissing(body) ==
    \/ body = Null
    \/ \E v \in {body.user_hash, body.project_id, body.query} :
           v \in {Undefined, Null, Str("")}

\* C13: POST /api/chat answers 400 and issues no upstream request whenever
\* user_hash, project_id or query is missing or empty in the request body,
\* and forwards the request upstream only when all three are present.
C13_MissingFieldRejected ==
    [][\A body \in RelayChatBodies :
          body # Malformed /\ POST(body)
          => IF SomeFieldMissing(body)
             THEN /\ relayPc' = "done"
                  /\ relayResp'.status = 400
                  /\ relayUpstream' = Null
             ELSE /\ relayPc' = "upstream"
                  /\ relayUpstream'.body = body]_vars

\* The upstream outcomes on which a handler throws after its fetch: the
\* fetch rejects, the body cannot be read, or a 2xx body is not JSON.
RelayThrows(r) ==
    \/ r.rejected
    \/ r.body = Broken
    \/ (r.status >= 200 /\ r.status <= 299 /\ r.body.json = Malformed)

\* C14: in both relay routes, whenever the handler throws (the request body
\* does not parse, the upstream fetch rejects, the upstream body cannot be
\* read or is not JSON) the answer is 500 with the generic message; when
\* nothing throws and the upstream status s is outside 2xx, the answer has
\* status s and a JSON body whose error field is a string carrying the
\* upstream text.
C14_RelayErrors ==
    [][/\ \A r \in UpstreamResponses :
              (POST_UpstreamSettles(r) \/ GET_UpstreamSettles(r))
              => IF RelayThrows(r)
                 THEN /\ relayResp'.status = 500
                      /\ relayResp'.json =
                             [error |-> Text(<<"Internal server error">>)]
                 ELSE (r.status < 200 \/ r.status > 299)
                      => /\ relayResp'.status = r.status
                         /\ relayResp'.json =
                                [error |-> Text(<<"Backend error: ",
                                                  r.body.text>>)]
       /\ POST(Malformed)
              => /\ relayResp'.status = 500
                 /\ relayResp'.json =
                        [error |-> Text(<<"Internal server error">>)]
                 /\ relayUpstream' = Null]_vars

\* The metadata route has passed on an upstream 404 with its text.
C14_Witness ==
    /\ relayPc = "done"
    /\ relayReq.route = "projects"
    /\ relayUpstream # Null
    /\ relayResp.status = 404
    /\ relayResp.json = [error |-> Text(<<"Backend error: ",
                                          "{\"detail\":\"Project not found\"}">>)]

\* The upload failures C15 names: a rejected fetch, a status outside 2xx,
\* or a 2xx body that is not JSON.
UploadFails(r) ==
    \/ r.rejected
    \/ r.status < 200
    \/ r.status > 299
    \/ r.body = Malformed

\* C15: when the POST /api/create of an upload fails, the settling leaves
\* phase and active path as they were, shows the visitor the failure notice,
\* and leaves uploading false with no upload outstanding, so that on landing
\* the drop zone is shown again.
C15_FailedUploadKeepsState ==
    [][\A r \in CreateResponses :
          UploadFails(r) /\ CreateSettles(r)
          => /\ appState' = appState
             /\ chatId' = chatId
             /\ alerts' = Append(alerts, "Upload failed. Please try again.")
             /\ uploading' = FALSE
             /\ pendingUpload' = Null
             /\ uploadResult' = Threw
             /\ createPosts' = createPosts]_vars

\* After one failed upload a second one has been started from landing.
C15_Witness ==
    /\ appState = "landing"
    /\ chatId = Null
    /\ alerts = <<"Upload failed. Please try again.">>
    /\ Len(createPosts) = 2
    /\ pendingUpload # Null
    /\ uploading

\* C16: documentName is written at most once per activation: once it is
\* non-null, no step (a later answered send with sources, or the metadata
\* fetch completing after a send has set it) changes it.
C16_DocumentNameWrittenOnce ==
    [][documentName # Null => documentName' = documentName]_vars

\* C17: in every reachable state, overlapping sends included, isLoading is
\* true exactly when at least one chat POST is in flight.
C17_IsLoadingIffInFlight ==
    isLoading <=> (\E i \in 1..Len(sends) : sends[i].pc = "fetch")

\* C18: whenever a sendMessage call settles with its ai message appended,
\* error is null in the state reached, whatever other calls have done in
\* between.
C18_ErrorNullAfterAnswer ==
    [][\A i \in 1..MaxSends :
          (/\ Settles(i)
           /\ sends'[i].result = "answered"
           /\ Len(messages') = Len(messages) + 1
           /\ messages'[Len(messages')].type = "ai")
          => error' = Null]_vars

\* C19: the phase changes only from landing to share (an upload succeeds),
\* from share to landing (start over) and from landing to chat (the startup
\* check); once the phase is chat, no step, a late upload completion
\* included, changes the phase or the active path.
C19_PhaseTransitions ==
    [][/\ appState' # appState
              => \/ /\ appState = "landing"
                    /\ appState' = "share"
                    /\ \E r \in CreateResponses :
                           ~CreateThrows(r) /\ CreateSettles(r)
                 \/ /\ appState = "share"
                    /\ appState' = "landing"
                    /\ HandleCreateNew
                 \/ /\ appState = "landing"
                    /\ appState' = "chat"
                    /\ StartupEffect
       /\ appState = "chat"
              => /\ appState' = "chat"
                 /\ chatId' = chatId]_vars

\* C20: the startup check puts the page in phase chat exactly when the
\* location has the form /chat/{ownerHash}/{sessionId}, that is, exactly
\* when the identity resolver resolves it; on every other location, such as
\* /chat/abc, the phase stays landing.
C20_StartupMatchesResolver ==
    [][StartupEffect
          => /\ (appState' = "chat") <=> RefResolves(location)
             /\ (appState' = "chat") <=> (getChatParams(location) # Null)
             /\ (getChatParams(location) = Null => appState' = "landing")
             /\ (location = P_chat_abc => appState' = "landing")]_vars

\* A response to the chat POST on which sendMessage runs its try block to
\* the end: a 2xx status, a JSON body, and no truthy error field.
ChatSucceeds(r) ==
    /\ ~r.rejected
    /\ r.status >= 200
    /\ r.status <= 299
    /\ r.body # Malformed
    /\ r.body.error \in {Undefined, Null, Text(<<>>)}

\* C21: in the step in which a sendMessage call with a resolvable identity
\* issues its chat POST, the call's human message is appended as the last
\* element of the history, isLoading is true and error is null; and a step
\* appends an ai message only as the settling of an issued POST with a
\* successful response.
C21_OrderAtPost ==
    [][/\ \A messageText \in MessageTexts :
              (RefResolves(pathname) /\ SendMessage(messageText))
              => /\ Len(chatPosts') = Len(chatPosts) + 1
                 /\ chatPosts'[Len(chatPosts')].query = messageText
                 /\ Len(messages') = Len(messages) + 1
                 /\ messages'[Len(messages')].type = "human"
                 /\ messages'[Len(messages')].content =
                        <<[type |-> "text", text |-> messageText]>>
                 /\ isLoading' = TRUE
                 /\ error' = Null
       /\ (/\ Len(messages') > Len(messages)
           /\ messages'[Len(messages')].type = "ai")
              => \E i \in 1..Len(sends), r \in ChatResponses :
                     /\ sends[i].pc = "fetch"
                     /\ Len(chatPosts) >= i
                     /\ ChatSucceeds(r)
                     /\ ChatSettles(i, r)]_vars

\* Two POSTs are outstanding, each issued with its human message appended;
\* no ai message yet.
C21_Witness ==
    /\ Len(chatPosts) = 2
    /\ Len(messages) = 2
    /\ \A k \in 1..2 : messages[k].type = "human"
    /\ isLoading
    /\ error = Null

\* C22: the history is empty at activation, and in every step (a send that
\* starts, succeeds, fails or is refused, overlapping or not, and the
\* metadata completion) the previous history is a prefix of the next one.
C22_AppendOnly ==
    /\ messages = <<>>
    /\ [][/\ Len(messages') >= Len(messages)
          /\ SubSeq(messages', 1, Len(messages)) = messages]_vars

\* Two overlapping sends, one failed and one answered, after the metadata
\* completed: three messages, the two questions first.
C22_Witness ==
    /\ metaPc = "done"
    /\ Len(messages) = 3
    /\ messages[1].type = "human"
    /\ messages[2].type = "human"
    /\ messages[3].type = "ai"
    /\ \E i \in 1..Len(sends) : sends[i].result = "failed"

\* C23: the ids of the messages in the history are pairwise different, for
\* every sequence of sendMessage calls, two sends at the same timestamp
\* value included.
C23_UniqueIds ==
    \A i, j \in 1..Len(messages) :
        i # j => messages[i].id # messages[j].id

\* C24: in an activation whose path resolves, the metadata GET is issued by
\* the mount effect and never again: from then on exactly one GET has been
\* issued, for the path's identity, whatever sends, renders and metadata
\* outcomes follow.
C24_MetadataOnce ==
    [][RefResolves(pathname)
       => /\ Len(metaGets') <= 1
          /\ (metaPc = "mount" /\ metaPc' # "mount") => Len(metaGets') = 1
          /\ metaPc # "mount"
                 => /\ metaGets' = metaGets
                    /\ Len(metaGets') = 1
                    /\ metaGets'[1] = getChatParams(pathname)]_vars

\* The metadata fetch failed or returned and two sends have settled since:
\* still one GET.
C24_Witness ==
    /\ pathname = P_chat_abc_123
    /\ metaPc = "done"
    /\ documentName = Null
    /\ Len(sends) = 2
    /\ \A i \in 1..Len(sends) : sends[i].pc = "done"
    /\ Len(metaGets) = 1

\* The metadata failures C25 names: a rejected fetch, a status outside 2xx,
\* or a 2xx body that is not JSON.
MetaFails(r) ==
    \/ r.rejected
    \/ r.status < 200
    \/ r.status > 299
    \/ r.body = Malformed

\* C25: the settling of a failing metadata fetch leaves error, isLoading,
\* documentName and the history as they are, and reaches the very state the
\* settling of a 2xx response with an empty document_names list reaches, so
\* that every later sendMessage behaves the same in both cases.
C25_MetadataFailureSwallowed ==
    [][\A r \in MetaResponses :
          MetaFails(r) /\ ProjectInfoSettles(r)
          => /\ error' = error
             /\ isLoading' = isLoading
             /\ documentName' = documentName
             /\ messages' = messages
             /\ sends' = sends
             /\ chatPosts' = chatPosts
             /\ ProjectInfoSettles(
                    Http(200, "OK", [document_names |-> Arr(<<>>)]))]_vars

\* The metadata fetch has settled without a name (failed, or no names) and
\* a send has been answered.
C25_Witness ==
    /\ pathname = P_chat_abc_123
    /\ metaPc = "done"
    /\ documentName = Null
    /\ Len(sends) = 1
    /\ sends[1].result = "answered"
    /\ Len(messages) = 2
    /\ error = Null
    /\ ~isLoading

\* C26: a sendMessage call with an empty query text, or on a path whose
\* owner hash or session id is missing or empty, issues no chat POST.
C26_MissingFieldNoRequest ==
    [][\A messageText \in MessageTexts :
          (/\ SendMessage(messageText)
           /\ \/ messageText = ""
              \/ ~RefResolves(pathname)
              \/ RefPart(pathname, 2) = <<>>
              \/ RefPart(pathname, 3) = <<>>)
          => chatPosts' = chatPosts]_vars

=============================================================================
